---- MODULE Spec2Model ----
(***************************************************************************)
(* The feedback widget of assets/js/site.js: the click handler of          *)
(* injectFeedbackForm, one read-modify-write append of a line to           *)
(* docs/Feedback.md through the contents API of the remote store.          *)
(*                                                                         *)
(* Text is a sequence of UTF-16 code units (a JavaScript string); what the *)
(* store keeps is a sequence of bytes.  The base64 wire format of the      *)
(* contents API is a bijection on byte strings and is left out: the model  *)
(* keeps what atob yields (one code unit per stored byte) and what         *)
(* unescape(encodeURIComponent(..)) yields (the UTF-8 bytes of the text).  *)
(***************************************************************************)
EXTENDS Integers, Sequences, FiniteSets, TLC

\* ------------------------------------------------------------ bounds
\* Clicks on the submit button in one behaviour of Spec (SpecRetry, which
\* injects no fault, allows one more).
MaxAttempts == 2
\* Largest reading of the clock (new Date()).
MaxClock == 1
\* Groups of a navigation configuration, and entries of a group, in SpecNav.
MaxGroups == 2
MaxItems == 2

\* --------------------------------------------------------- constants
\* txt.length>200
MaxFeedbackLen == 200
\* let sha=null
NoSha == 0
\* the '\n' that opens an entry
NL == 10
\* ' '
SP == 32

\* Code units that /\s/ and String.prototype.trim treat as white space
\* (tab, LF, VT, FF, CR, space, NBSP).
WhiteSpace == {9, 10, 11, 12, 13, 32, 160}

IsSpace(c) == c \in WhiteSpace

\* Index of the first code unit of s that is not white space, Len(s)+1 if none.
FirstNonSpace(s) ==
  IF \A i \in 1..Len(s) : IsSpace(s[i]) THEN Len(s) + 1
  ELSE CHOOSE i \in 1..Len(s) : ~IsSpace(s[i]) /\ \A j \in 1..(i-1) : IsSpace(s[j])

\* Index of the last code unit of s that is not white space, 0 if none.
LastNonSpace(s) ==
  IF \A i \in 1..Len(s) : IsSpace(s[i]) THEN 0
  ELSE CHOOSE i \in 1..Len(s) : ~IsSpace(s[i]) /\ \A j \in (i+1)..Len(s) : IsSpace(s[j])

\* s.replace(/^\s+/,''): without the m flag ^ is the start of the string, so
\* the whole leading run of white space goes.
StripLeading(s) == SubSeq(s, FirstNonSpace(s), Len(s))

\* value.trim()
Trim(s) == SubSeq(s, FirstNonSpace(s), LastNonSpace(s))

\* atob(j.content.replace(/\n/g,'')): a binary string, one code unit per byte.
Atob(bytes) == [i \in 1..Len(bytes) |-> bytes[i]]

\* UTF-8 bytes of one code unit (no surrogates in the model's alphabet).
Utf8(c) ==
  IF c < 128 THEN <<c>>
  ELSE IF c < 2048 THEN <<192 + (c \div 64), 128 + (c % 64)>>
  ELSE <<224 + (c \div 4096), 128 + ((c \div 64) % 64), 128 + (c % 64)>>

\* unescape(encodeURIComponent(s)): the UTF-8 bytes of s, one code unit each;
\* btoa then ships exactly these bytes.
RECURSIVE Utf8Encode(_)
Utf8Encode(s) ==
  IF Len(s) = 0 THEN <<>>
  ELSE IF Len(s) = 1 THEN Utf8(s[1])
  ELSE LET h == Len(s) \div 2
       IN  Utf8Encode(SubSeq(s, 1, h)) \o Utf8Encode(SubSeq(s, h + 1, Len(s)))

\* new Date().toISOString(), on a clock that counts from 0: fixed width,
\* digits only, so that later readings sort later.
ToISOString(t) == <<48 + (t \div 10), 48 + (t % 10)>>

\* ------------------------------------------------------------- pages
Pages == {1}

\* location.pathname
Pathname(p) == IF p = 1 THEN <<47, 113>> ELSE <<47, 114>>
\* location.search
Search(p) == IF p = 1 THEN <<>> ELSE <<63, 118>>

\* const page=location.pathname + location.search
PageOf(p) == Pathname(p) \o Search(p)

\* const entry=`\n- [${when}] (${page}) ${txt}`
\* (the page put before the time)
EntryPageFirst(when, page, txt) ==
  <<NL, 45, SP, 40>> \o page \o <<41, SP, 91>> \o when \o <<93, SP>> \o txt
Entry(when, page, txt) ==
  <<NL, 45, SP, 91>> \o when \o <<93, SP, 40>> \o page \o <<41, SP>> \o txt

\* const newContent=(existing + entry).replace(/^\s+/,'')
\* (the replace left out)
NewContentNoStrip(existing, entry) == existing \o entry
\* (the entry put above the existing content)
NewContentPrepend(existing, entry) == StripLeading(entry \o <<NL>> \o existing)
\* (only one leading newline taken off: replace(/^\n/,''))
NewContentOneNewline(existing, entry) ==
  LET c == existing \o entry IN IF c[1] = NL THEN Tail(c) ELSE c
NewContent(existing, entry) == StripLeading(existing \o entry)

\* ------------------------------------------------------------- state
VARIABLES
  remote,   \* docs/Feedback.md in the store: [exists, content (bytes), sha]
  strict,   \* whether the store refuses a write whose version token is stale
  now,      \* the latest reading of the clock
  input,    \* per page: the value of #feedback-input
  status,   \* per page: the textContent of #feedback-status, as its parts
  nAtt,     \* clicks on #feedback-submit so far
  att,      \* per click: the locals of that run of the handler, and its requests
  nav,      \* the groups buildNav walks (NAV on the site)
  leftNav,  \* the element with id 'left-nav': whether it is there, its children
  navRun,   \* the run of buildNav: "pending", "done", or "threw"
  widget    \* whether the feedback form is in the page, its handler registered

vars == <<remote, strict, now, input, status, nAtt, att, nav, leftNav, navRun, widget>>

\* What page load sets and the click handler never touches.
navVars == <<nav, leftNav, navRun, widget>>

\* -------------------------------------------------------- navigation
\* const NAV=[{title, items:[{title, href}, ...]}, ...]
NAV ==
  << [title |-> "HOME", items |->
        << [title |-> "Overview", href |-> "index.html"],
           [title |-> "What's New", href |-> "pages/whats-new.html"],
           [title |-> "Release Notes", href |-> "pages/release-notes.html"] >>],
     [title |-> "GETTING STARTED", items |->
        << [title |-> "Introduction", href |-> "pages/getting-started.html"],
           [title |-> "Quick Start", href |-> "pages/quick-start.html"],
           [title |-> "Setup by Compute Type", href |-> "pages/setup-by-compute.html"],
           [title |-> "Setup by Language", href |-> "pages/setup-by-language.html"] >>],
     [title |-> "CONCEPTS & FUNDAMENTALS", items |->
        << [title |-> "Core Concepts", href |-> "pages/concepts.html"],
           [title |-> "Instrumentation", href |-> "pages/instrumentation.html"],
           [title |-> "Data Model", href |-> "pages/data-model.html"] >>],
     [title |-> "IMPLEMENTATION GUIDES", items |->
        << [title |-> "Instrumentation", href |-> "pages/implementation.html"],
           [title |-> "Language-Specific Guides", href |-> "pages/language-guides.html"],
           [title |-> "Service Integration", href |-> "pages/service-integration.html"] >>],
     [title |-> "FEATURES & CAPABILITIES", items |->
        << [title |-> "Distributed Tracing", href |-> "pages/features.html"],
           [title |-> "Service Map", href |-> "pages/service-map.html"],
           [title |-> "Performance Analytics", href |-> "pages/performance-analytics.html"] >>],
     [title |-> "EXAMPLES & CODE SAMPLES", items |->
        << [title |-> "Examples", href |-> "pages/examples.html"],
           [title |-> "Code Snippets", href |-> "pages/code-samples.html"] >>],
     [title |-> "API REFERENCE", items |->
        << [title |-> "REST APIs", href |-> "pages/api.html"],
           [title |-> "SDK Reference", href |-> "pages/sdk-reference.html"] >>],
     [title |-> "BEST PRACTICES", items |->
        << [title |-> "Instrumentation Best Practices", href |-> "pages/best-practices.html"],
           [title |-> "Sampling Strategies", href |-> "pages/sampling.html"] >>],
     [title |-> "TROUBLESHOOTING", items |->
        << [title |-> "Common Issues", href |-> "pages/troubleshooting.html"],
           [title |-> "Debugging Guides", href |-> "pages/debugging.html"] >>],
     [title |-> "SECURITY & COMPLIANCE", items |->
        << [title |-> "Security", href |-> "pages/security.html"],
           [title |-> "Data Privacy", href |-> "pages/data-privacy.html"] >>],
     [title |-> "INTEGRATIONS", items |->
        << [title |-> "AWS Services", href |-> "pages/integrations.html"],
           [title |-> "Third-Party", href |-> "pages/third-party.html"] >>],
     [title |-> "REFERENCE", items |->
        << [title |-> "Service Limits", href |-> "pages/reference.html"],
           [title |-> "Glossary", href |-> "pages/glossary.html"] >>] >>

\* const h=document.createElement('h3'); h.textContent=group.title
NavHeading(group) == [tag |-> "h3", textContent |-> group.title]

\* const a=document.createElement('a'); a.className=..; a.href=..; a.textContent=..
NavLink(it) ==
  [tag |-> "a", className |-> "nav-item nav-sub", href |-> it.href, textContent |-> it.title]

\* group.items.forEach(it=>{ ... g.appendChild(a) })
\* (the entries walked from the last to the first)
NavLinksReversed(items) ==
  [j \in 1..Len(items) |-> NavLink(items[Len(items) + 1 - j])]
NavLinks(items) == [j \in 1..Len(items) |-> NavLink(items[j])]

\* const g=document.createElement('div'); g.className='nav-group';
\* g.appendChild(h); then the links
NavGroup(group) ==
  [tag |-> "div", className |-> "nav-group",
   children |-> <<NavHeading(group)>> \o NavLinks(group.items)]

\* The element 'left-nav' when the page has none, and when it has one with
\* the children c.
NoContainer == [present |-> FALSE, children |-> <<>>]
Container(c) == [present |-> TRUE, children |-> c]

\* buildNav(): container.appendChild(g) for each group in turn.  When
\* getElementById gave null, the first container.appendChild throws a
\* TypeError out of forEach and out of buildNav (nothing catches it); a NAV
\* without groups never reaches that line.
BuildNav ==
  /\ navRun = "pending"
  /\ IF leftNav.present
       THEN /\ leftNav' = [leftNav EXCEPT !.children =
                             @ \o [i \in 1..Len(nav) |-> NavGroup(nav[i])]]
            /\ navRun' = "done"
       ELSE /\ leftNav' = leftNav
            /\ navRun' = IF nav = <<>> THEN "done" ELSE "threw"
  /\ UNCHANGED <<nav, widget, remote, strict, now, input, status, nAtt, att>>

\* (one listener for both: buildNav(); injectFeedbackForm(); so that a throw
\* of the first keeps the second from running)
InjectFeedbackFormAfterNav ==
  /\ navRun = "done"
  /\ ~widget
  /\ widget' = TRUE
  /\ input' = [p \in DOMAIN input |-> <<>>]
  /\ status' = [p \in DOMAIN status |-> <<>>]
  /\ UNCHANGED <<nav, leftNav, navRun, remote, strict, now, nAtt, att>>

\* injectFeedbackForm(), from the second DOMContentLoaded listener: it runs
\* after the first listener has ended, however that one ended; main or body
\* is there, so the form is appended and the click handler registered.
InjectFeedbackForm ==
  /\ navRun # "pending"
  /\ ~widget
  /\ widget' = TRUE
  /\ input' = [p \in DOMAIN input |-> <<>>]
  /\ status' = [p \in DOMAIN status |-> <<>>]
  /\ UNCHANGED <<nav, leftNav, navRun, remote, strict, now, nAtt, att>>

Attempts == 1..(MaxAttempts + 1)

Rep(n, c) == [i \in 1..n |-> c]

\* What a user may have in the textarea (maxlength limits typing, not a value
\* set by script or pasted by an extension, so the handler checks again).
Texts ==
  { <<>>, <<SP>>, <<65>>, <<SP, 66, NL>>, <<233>>, <<97, NL, 98>> }

\* Texts at the limit of the length check: 200 and 201 code units, and 200
\* of them between white space.
BoundaryTexts ==
  { <<>>, <<SP>>, <<65>>, Rep(MaxFeedbackLen, 120), Rep(MaxFeedbackLen + 1, 120),
    <<SP>> \o Rep(MaxFeedbackLen, 120) \o <<NL>> }

\* Contents the log may hold before the first click (bytes).
InitialContents == { <<72>>, <<NL, NL, 72>>, <<195, 169>> }

NoRes == [kind |-> "none", status |-> 0, sha |-> NoSha, content |-> <<>>]
NoPut == [sha |-> NoSha, content |-> <<>>, message |-> <<>>, auth |-> <<"", 0>>]

\* An attempt before its click.  pc is the handler's position: "getSent" and
\* "putSent" are the two awaits with the request on its way, "getAnswered" and
\* "putAnswered" the same awaits with the response on its way back.  The
\* locals of the handler are txt, token, sha and when; the rest records what
\* the attempt did: its requests (gets, getAuth, puts, put), their answers
\* (getRes, putRes), whether every earlier attempt had ended at its click
\* (alone), what the store did with its write (applied, replaced, newSha), and
\* what it gave to console.error (logged).
Unused ==
  [ pc |-> "unused", page |-> 0, alone |-> TRUE, raw |-> <<>>, txt |-> <<>>,
    prompted |-> FALSE,
    token |-> <<"", 0>>, gets |-> 0, getAuth |-> <<"", 0>>, getRes |-> NoRes,
    sha |-> NoSha, when |-> <<>>, puts |-> 0, put |-> NoPut, putRes |-> NoRes,
    applied |-> FALSE, replaced |-> <<>>, newSha |-> NoSha, outcome |-> "none",
    logged |-> <<>> ]

\* The page of the site once both DOMContentLoaded listeners have run, on a
\* page that has the element 'left-nav': the navigation is built, the
\* feedback form is in place and nothing is typed.
Init ==
  /\ remote \in
       { [exists |-> FALSE, content |-> <<>>, sha |-> NoSha] } \cup
       { [exists |-> TRUE, content |-> c, sha |-> 1] : c \in InitialContents }
  /\ strict \in BOOLEAN
  /\ now = 0
  /\ input = [p \in Pages |-> <<>>]
  /\ status = [p \in Pages |-> <<>>]
  /\ nAtt = 0
  /\ att = [a \in Attempts |-> Unused]
  /\ nav = NAV
  /\ leftNav = Container([i \in 1..Len(NAV) |-> NavGroup(NAV[i])])
  /\ navRun = "done"
  /\ widget = TRUE

\* ------------------------------------- the click handler, to the GET
\* if(!txt)
IsEmpty(txt) == txt = <<>>
\* if(txt.length>200)
\* (>= for >)
TooLongOffByOne(txt) == Len(txt) >= MaxFeedbackLen
TooLong(txt) == Len(txt) > MaxFeedbackLen

\* const txt=document.getElementById('feedback-input').value.trim()
TxtOf(v) == Trim(v)

\* prompt(): what the user pastes at the prompt of attempt a.  The credential
\* is opaque to the handler; one string per attempt keeps apart whose it is.
CredentialOf(a) == <<"pat", a>>

\* A click on #feedback-submit of page p with v in the textarea (what the user
\* typed since the last event), the locals of the handler so far.
Clicked(p, v) ==
  [Unused EXCEPT !.pc = "done", !.page = p, !.raw = v, !.txt = TxtOf(v),
                  !.alone = \A b \in 1..nAtt : att[b].pc = "done"]

\* (the empty branch also empties the textarea)
SubmitEmptyClears(p, v) ==
  /\ widget
  /\ IsEmpty(TxtOf(v))
  /\ input' = [input EXCEPT ![p] = <<>>]
  /\ status' = [status EXCEPT ![p] = <<"Please enter feedback.">>]
  /\ att' = [att EXCEPT ![nAtt + 1] = [Clicked(p, v) EXCEPT !.outcome = "Invalid"]]
  /\ nAtt' = nAtt + 1
  /\ UNCHANGED navVars /\ UNCHANGED <<remote, strict, now>>
SubmitEmpty(p, v) ==
  /\ widget
  /\ IsEmpty(TxtOf(v))
  /\ input' = [input EXCEPT ![p] = v]
  /\ status' = [status EXCEPT ![p] = <<"Please enter feedback.">>]
  /\ att' = [att EXCEPT ![nAtt + 1] = [Clicked(p, v) EXCEPT !.outcome = "Invalid"]]
  /\ nAtt' = nAtt + 1
  /\ UNCHANGED navVars /\ UNCHANGED <<remote, strict, now>>

SubmitTooLong(p, v) ==
  /\ widget
  /\ ~IsEmpty(TxtOf(v))
  /\ TooLong(TxtOf(v))
  /\ input' = [input EXCEPT ![p] = v]
  /\ status' = [status EXCEPT ![p] = <<"Feedback too long.">>]
  /\ att' = [att EXCEPT ![nAtt + 1] = [Clicked(p, v) EXCEPT !.outcome = "Invalid"]]
  /\ nAtt' = nAtt + 1
  /\ UNCHANGED navVars /\ UNCHANGED <<remote, strict, now>>

\* (the cancel branch also empties the textarea)
SubmitCancelledClears(p, v) ==
  /\ widget
  /\ ~IsEmpty(TxtOf(v))
  /\ ~TooLong(TxtOf(v))
  /\ input' = [input EXCEPT ![p] = <<>>]
  /\ status' = [status EXCEPT ![p] = <<"Submission cancelled.">>]
  /\ att' = [att EXCEPT ![nAtt + 1] =
               [Clicked(p, v) EXCEPT !.outcome = "Cancelled", !.prompted = TRUE]]
  /\ nAtt' = nAtt + 1
  /\ UNCHANGED navVars /\ UNCHANGED <<remote, strict, now>>
\* if(!token): prompt() gave null or ''
SubmitCancelled(p, v) ==
  /\ widget
  /\ ~IsEmpty(TxtOf(v))
  /\ ~TooLong(TxtOf(v))
  /\ input' = [input EXCEPT ![p] = v]
  /\ status' = [status EXCEPT ![p] = <<"Submission cancelled.">>]
  /\ att' = [att EXCEPT ![nAtt + 1] =
               [Clicked(p, v) EXCEPT !.outcome = "Cancelled", !.prompted = TRUE]]
  /\ nAtt' = nAtt + 1
  /\ UNCHANGED navVars /\ UNCHANGED <<remote, strict, now>>

\* status 'Submitting...', then await fetch(apiBase, {headers: Authorization})
SubmitStart(p, v) ==
  /\ widget
  /\ ~IsEmpty(TxtOf(v))
  /\ ~TooLong(TxtOf(v))
  /\ input' = [input EXCEPT ![p] = v]
  /\ status' = [status EXCEPT ![p] = <<"Submitting...">>]
  /\ att' = [att EXCEPT ![nAtt + 1] =
               [Clicked(p, v) EXCEPT !.pc = "getSent", !.prompted = TRUE,
                                     !.token = CredentialOf(nAtt + 1), !.gets = 1,
                                     !.getAuth = CredentialOf(nAtt + 1)]]
  /\ nAtt' = nAtt + 1
  /\ UNCHANGED navVars /\ UNCHANGED <<remote, strict, now>>

\* ------------------------------------------- the store answers the GET
\* What the first await of the handler can resolve to: the file and its
\* version token, 'not found', another status, a body that does not decode
\* (res.json() or atob throws), or a rejected fetch.
ReadResponses ==
  (IF remote.exists
     THEN { [kind |-> "http", status |-> 200, sha |-> remote.sha, content |-> remote.content],
            [kind |-> "badbody", status |-> 200, sha |-> NoSha, content |-> <<>>] }
     ELSE { [kind |-> "http", status |-> 404, sha |-> NoSha, content |-> <<>>] })
  \cup { [kind |-> "http", status |-> st, sha |-> NoSha, content |-> <<>>] : st \in {401, 500} }
  \cup { [kind |-> "rejected", status |-> 0, sha |-> NoSha, content |-> <<>>] }

StoreRead(a, r) ==
  /\ att[a].pc = "getSent"
  /\ r \in ReadResponses
  /\ att' = [att EXCEPT ![a] = [@ EXCEPT !.pc = "getAnswered", !.getRes = r]]
  /\ UNCHANGED navVars /\ UNCHANGED <<remote, strict, now, input, status, nAtt>>

\* ------------------------------------ the handler, from the GET to the PUT
\* if(res.status===200) ... else if(res.status===404)
ReadFound(r) == r.kind = "http" /\ r.status = 200
\* (every status but 200 taken as not found)
ReadNotFoundAnyStatus(r) == r.kind = "http" /\ r.status # 200
ReadNotFound(r) == r.kind = "http" /\ r.status = 404

\* sha=j.sha (200), sha=null (404)
\* (sha kept from the run before instead of being a local)
ShaOfStale(a, r) == IF a > 1 /\ att[a - 1].sha # NoSha THEN att[a - 1].sha ELSE r.sha
ShaOf(a, r) == IF ReadFound(r) THEN r.sha ELSE NoSha

\* let existing=''; existing=atob(...) (200), existing='' (404)
\* (existing kept from the run before instead of being a local)
ExistingOfShared(a, r) ==
  IF a > 1 /\ att[a - 1].puts > 0 THEN Atob(att[a - 1].put.content)
  ELSE IF ReadFound(r) THEN Atob(r.content) ELSE <<>>
ExistingOf(a, r) == IF ReadFound(r) THEN Atob(r.content) ELSE <<>>

\* message:`Add feedback from page ${page}`
MessageOf(page) == <<"Add feedback from page ", page>>

\* (the credential of the first click kept and sent by every later one)
PutOfFirstToken(sha, newContent, page, tok) ==
  [sha |-> sha, content |-> Utf8Encode(newContent),
   message |-> <<"Add feedback from page ", page>>, auth |-> <<"pat", 1>>]
\* (the line if(sha) body.sha=sha left out)
PutOfWithoutSha(sha, newContent, page, tok) ==
  [sha |-> NoSha, content |-> Utf8Encode(newContent),
   message |-> <<"Add feedback from page ", page>>, auth |-> tok]
\* body={message, content: b64, branch}; if(sha) body.sha=sha; headers
PutOf(sha, newContent, page, tok) ==
  [sha |-> sha, content |-> Utf8Encode(newContent), message |-> MessageOf(page),
   auth |-> tok]

\* (one text for every failure)
ErrMessageGeneric(r, thrown) == <<"Something went wrong">>
\* The text err.message of what the catch block receives.
ErrMessage(r, thrown) ==
  IF r.kind = "http" THEN <<thrown, ToString(r.status)>>
  ELSE IF r.kind = "badbody" THEN <<"Unexpected end of JSON input">>
  ELSE <<"Failed to fetch">>

\* (the catch block sends the read again instead of ending the attempt)
CaughtRetries(a, r, thrown) ==
  /\ status' = [status EXCEPT ![att[a].page] = <<"Submitting...">>]
  /\ att' = [att EXCEPT ![a] = [@ EXCEPT !.pc = "getSent", !.gets = @ + 1]]
\* catch(err){ console.error(err); status.textContent='Error: '+err.message }
Caught(a, r, thrown) ==
  /\ status' = [status EXCEPT ![att[a].page] = <<"Error: ">> \o ErrMessage(r, thrown)]
  /\ att' = [att EXCEPT ![a] = [@ EXCEPT !.pc = "done", !.outcome = "Failed",
                                          !.logged = ErrMessage(r, thrown)]]

\* 200 or 404: read the clock, compose, and await fetch(apiBase, {method:'PUT'})
Compose(a, t) ==
  /\ t \in now..MaxClock
  /\ now' = t
  /\ LET r == att[a].getRes
         sha == ShaOf(a, r)
         existing == ExistingOf(a, r)
         when == ToISOString(t)
         page == PageOf(att[a].page)
         entry == Entry(when, page, att[a].txt)
     IN  \E newContent \in {NewContent(existing, entry)} :
           att' = [att EXCEPT ![a] =
                     [@ EXCEPT !.pc = "putSent", !.sha = sha, !.when = when,
                               !.puts = @ + 1,
                               !.put = PutOf(sha, newContent, page, att[a].token)]]
  /\ UNCHANGED navVars /\ UNCHANGED <<remote, strict, input, status, nAtt>>

\* (the GET not awaited)
ReadOkNoAwait(a, t) ==
  /\ att[a].pc = "getSent"
  /\ Compose(a, t)
ReadOk(a, t) ==
  /\ att[a].pc = "getAnswered"
  /\ ReadFound(att[a].getRes) \/ ReadNotFound(att[a].getRes)
  /\ Compose(a, t)

\* (the first await outside the try block: its rejection leaves the handler)
ReadErrorEscapes(a) ==
  /\ att[a].pc = "getAnswered"
  /\ ~(ReadFound(att[a].getRes) \/ ReadNotFound(att[a].getRes))
  /\ IF att[a].getRes.kind = "rejected"
       THEN /\ att' = [att EXCEPT ![a] = [@ EXCEPT !.pc = "done", !.outcome = "Unhandled"]]
            /\ status' = status
       ELSE Caught(a, att[a].getRes, "Unable to read Feedback file: ")
  /\ UNCHANGED navVars /\ UNCHANGED <<remote, strict, now, input, nAtt>>
\* any other status, a body that does not decode, a rejected fetch: the throw
\* of line 89 or of the await lands in the catch block
ReadError(a) ==
  /\ att[a].pc = "getAnswered"
  /\ ~(ReadFound(att[a].getRes) \/ ReadNotFound(att[a].getRes))
  /\ Caught(a, att[a].getRes, "Unable to read Feedback file: ")
  /\ UNCHANGED navVars /\ UNCHANGED <<remote, strict, now, input, nAtt>>

\* ------------------------------------------- the store answers the PUT
\* The token of the request is the one of the file as it is now (or there is
\* neither a file nor a token).
Fresh(req) ==
  IF remote.exists THEN req.sha = remote.sha ELSE req.sha = NoSha

\* The store takes the write: the whole content is replaced and the file
\* gets a new version token.  The answer is 200 (updated) or 201 (created),
\* or it is lost on the way back and the fetch rejects.
StoreAccept(a, lost) ==
  /\ att[a].pc = "putSent"
  /\ Fresh(att[a].put) \/ ~strict
  /\ lost \in BOOLEAN
  /\ remote' = [exists |-> TRUE, content |-> att[a].put.content, sha |-> remote.sha + 1]
  /\ att' = [att EXCEPT ![a] =
               [@ EXCEPT !.pc = "putAnswered", !.applied = TRUE,
                         !.replaced = remote.content, !.newSha = remote.sha + 1,
                         !.putRes = IF lost
                                      THEN [NoRes EXCEPT !.kind = "rejected"]
                                      ELSE [NoRes EXCEPT !.kind = "http",
                                              !.status = IF remote.exists THEN 200 ELSE 201]]]
  /\ UNCHANGED navVars /\ UNCHANGED <<strict, now, input, status, nAtt>>

\* A store that enforces the token refuses a stale one with 409, and a write
\* without a token to a file that exists with 422.
StoreConflict(a) ==
  /\ att[a].pc = "putSent"
  /\ strict
  /\ ~Fresh(att[a].put)
  /\ att' = [att EXCEPT ![a] =
               [@ EXCEPT !.pc = "putAnswered",
                         !.putRes = [NoRes EXCEPT !.kind = "http",
                                       !.status = IF att[a].put.sha = NoSha THEN 422 ELSE 409]]]
  /\ UNCHANGED navVars /\ UNCHANGED <<remote, strict, now, input, status, nAtt>>

\* res.ok
ResOk(r) == r.kind = "http" /\ r.status \in 200..299

\* The credential is refused (401), or the request never arrives.
StoreRefuse(a, r) ==
  /\ att[a].pc = "putSent"
  /\ r.kind \in {"http", "rejected"}
  /\ ~ResOk(r)
  /\ att' = [att EXCEPT ![a] = [@ EXCEPT !.pc = "putAnswered", !.putRes = r]]
  /\ UNCHANGED navVars /\ UNCHANGED <<remote, strict, now, input, status, nAtt>>

\* ----------------------------------------------- the handler, after the PUT
\* (the success branch without the line that empties the textarea)
WriteOkKeepsInput(a) ==
  /\ att[a].pc = "putAnswered"
  /\ att[a].putRes.kind = "http" /\ att[a].putRes.status \in 200..299
  /\ status' = [status EXCEPT ![att[a].page] = <<"Thanks - feedback submitted.">>]
  /\ att' = [att EXCEPT ![a] = [@ EXCEPT !.pc = "done", !.outcome = "Succeeded"]]
  /\ UNCHANGED navVars /\ UNCHANGED <<remote, strict, now, nAtt, input>>
\* status 'Thanks', input cleared
WriteOk(a) ==
  /\ att[a].pc = "putAnswered"
  /\ ResOk(att[a].putRes)
  /\ status' = [status EXCEPT ![att[a].page] = <<"Thanks - feedback submitted.">>]
  /\ input' = [input EXCEPT ![att[a].page] = <<>>]
  /\ att' = [att EXCEPT ![a] = [@ EXCEPT !.pc = "done", !.outcome = "Succeeded"]]
  /\ UNCHANGED navVars /\ UNCHANGED <<remote, strict, now, nAtt>>

\* (the catch block also empties the textarea)
WriteErrorClearsInput(a) ==
  /\ att[a].pc = "putAnswered"
  /\ ~(att[a].putRes.kind = "http" /\ att[a].putRes.status \in 200..299)
  /\ Caught(a, att[a].putRes, "GitHub API error: ")
  /\ input' = [input EXCEPT ![att[a].page] = <<>>]
  /\ UNCHANGED navVars /\ UNCHANGED <<remote, strict, now, nAtt>>
\* (a rejected write is awaited without end: only a response resumes the handler)
WriteErrorHttpOnly(a) ==
  /\ att[a].pc = "putAnswered"
  /\ att[a].putRes.kind = "http"
  /\ att[a].putRes.status \notin 200..299
  /\ Caught(a, att[a].putRes, "GitHub API error: ")
  /\ UNCHANGED navVars /\ UNCHANGED <<remote, strict, now, input, nAtt>>
\* if(!res.ok) throw, or the await rejected: the catch block
WriteError(a) ==
  /\ att[a].pc = "putAnswered"
  /\ ~ResOk(att[a].putRes)
  /\ Caught(a, att[a].putRes, "GitHub API error: ")
  /\ UNCHANGED navVars /\ UNCHANGED <<remote, strict, now, input, nAtt>>

\* ------------------------------------------------------ specification
\* The answers of the store that are no fault of the network or of the
\* credential.
ProperReads == { r \in ReadResponses : ReadFound(r) \/ ReadNotFound(r) }
WriteRefusals ==
  { [NoRes EXCEPT !.kind = "http", !.status = 401], [NoRes EXCEPT !.kind = "rejected"] }

Next ==
  \/ \E p \in Pages, v \in Texts : nAtt < MaxAttempts /\ SubmitEmpty(p, v)
  \/ \E p \in Pages, v \in Texts : nAtt < MaxAttempts /\ SubmitCancelled(p, v)
  \/ \E p \in Pages, v \in Texts : nAtt < MaxAttempts /\ SubmitStart(p, v)
  \/ \E a \in Attempts, r \in ReadResponses : StoreRead(a, r)
  \/ \E a \in Attempts, t \in 0..MaxClock : ReadOk(a, t)
  \/ \E a \in Attempts : ReadError(a)
  \/ \E a \in Attempts, lost \in BOOLEAN : StoreAccept(a, lost)
  \/ \E a \in Attempts : StoreConflict(a)
  \/ \E a \in Attempts, r \in WriteRefusals : StoreRefuse(a, r)
  \/ \E a \in Attempts : WriteOk(a)
  \/ \E a \in Attempts : WriteError(a)

Spec == Init /\ [][Next]_vars

\* What attempt a does next without the user: the store answers the request
\* it has on its way, or its handler resumes from the await it is at.
Step(a) ==
  \/ \E r \in ReadResponses : StoreRead(a, r)
  \/ \E t \in 0..MaxClock : ReadOk(a, t)
  \/ ReadError(a)
  \/ \E lost \in BOOLEAN : StoreAccept(a, lost)
  \/ StoreConflict(a)
  \/ \E r \in WriteRefusals : StoreRefuse(a, r)
  \/ WriteOk(a)
  \/ WriteError(a)

\* Attempts that get past the prompt, with every fault of the store and of
\* the network; every request is answered or rejected in the end (fetch
\* settles) and every settled await is resumed (the event loop runs the
\* continuation).
LiveTexts == { <<SP, 66, NL>> }

NextLive ==
  \/ \E p \in Pages, v \in LiveTexts : nAtt < MaxAttempts /\ SubmitStart(p, v)
  \/ \E a \in Attempts : Step(a)

SpecLive == Init /\ [][NextLive]_vars /\ \A a \in Attempts : WF_vars(Step(a))
\* The click handler up to the prompt, on the texts at the limit of the
\* length check.
NextValidate ==
  \/ \E p \in Pages, v \in BoundaryTexts : nAtt < MaxAttempts /\ SubmitEmpty(p, v)
  \/ \E p \in Pages, v \in BoundaryTexts : nAtt < MaxAttempts /\ SubmitTooLong(p, v)
  \/ \E p \in Pages, v \in BoundaryTexts : nAtt < MaxAttempts /\ SubmitCancelled(p, v)
  \/ \E p \in Pages, v \in BoundaryTexts : nAtt < MaxAttempts /\ SubmitStart(p, v)

SpecValidate == Init /\ [][NextValidate]_vars

\* One more click, no fault: every read is answered 200 or 404, every write
\* is taken or refused as stale, and no answer is lost.
RetryTexts == { <<65>>, <<SP, 66, NL>> }

NextRetry ==
  \/ \E p \in Pages, v \in RetryTexts : nAtt < MaxAttempts + 1 /\ SubmitStart(p, v)
  \/ \E a \in Attempts, r \in ProperReads : StoreRead(a, r)
  \/ \E a \in Attempts, t \in 0..MaxClock : ReadOk(a, t)
  \/ \E a \in Attempts : StoreAccept(a, FALSE)
  \/ \E a \in Attempts : StoreConflict(a)
  \/ \E a \in Attempts : WriteOk(a)
  \/ \E a \in Attempts : WriteError(a)

SpecRetry == Init /\ [][NextRetry]_vars

\* The handler from the click to the composed write, on every kind of log:
\* none, empty, only white space, one or two leading blank lines, text that
\* is not ASCII; every read is answered as the store has it.
ComposeBases == InitialContents \cup { <<>>, <<SP, NL>>, <<NL, 72>> }
ComposeTexts == { <<65>>, <<SP, 66, NL>>, <<233>>, <<97, NL, 98>> }

InitCompose ==
  /\ remote \in
       { [exists |-> FALSE, content |-> <<>>, sha |-> NoSha] } \cup
       { [exists |-> TRUE, content |-> c, sha |-> 1] : c \in ComposeBases }
  /\ strict = TRUE
  /\ now = 0
  /\ input = [p \in Pages |-> <<>>]
  /\ status = [p \in Pages |-> <<>>]
  /\ nAtt = 0
  /\ att = [a \in Attempts |-> Unused]
  /\ nav = NAV
  /\ leftNav = Container([i \in 1..Len(NAV) |-> NavGroup(NAV[i])])
  /\ navRun = "done"
  /\ widget = TRUE

NextCompose ==
  \/ \E p \in Pages, v \in ComposeTexts : nAtt < MaxAttempts /\ SubmitStart(p, v)
  \/ \E a \in Attempts, r \in ProperReads : StoreRead(a, r)
  \/ \E a \in Attempts, t \in 0..MaxClock : ReadOk(a, t)

SpecCompose == InitCompose /\ [][NextCompose]_vars
\* buildNav alone, on every configuration of at most MaxGroups groups of at
\* most MaxItems entries (titles and targets may repeat), with and without
\* the element 'left-nav', which may have a child already.
SeqsUpTo(S, n) == UNION { [1..k -> S] : k \in 0..n }
NavEntries ==
  { [title |-> "x", href |-> "u.html"], [title |-> "y", href |-> "u.html"] }
NavConfigs ==
  SeqsUpTo([title : {"A", "B"}, items : SeqsUpTo(NavEntries, MaxItems)], MaxGroups)
OldChild == [tag |-> "div", className |-> "old", children |-> <<>>]

InitNav ==
  /\ remote = [exists |-> FALSE, content |-> <<>>, sha |-> NoSha]
  /\ strict = TRUE
  /\ now = 0
  /\ input = [p \in Pages |-> <<>>]
  /\ status = [p \in Pages |-> <<>>]
  /\ nAtt = 0
  /\ att = [a \in Attempts |-> Unused]
  /\ nav \in NavConfigs
  /\ leftNav \in {NoContainer, Container(<<>>), Container(<<OldChild>>)}
  /\ navRun = "pending"
  /\ widget = FALSE

NextNav == BuildNav

SpecNav == InitNav /\ [][NextNav]_vars

\* Page load: the two DOMContentLoaded listeners, each run once the event is
\* dispatched, on the pages and configurations of SpecNav.
NextLoad ==
  \/ BuildNav
  \/ InjectFeedbackForm

SpecLoad == InitNav /\ [][NextLoad]_vars /\ WF_vars(NextLoad)
\* ------------------------------------------------------------ claims
\* The line "- [T] (P) X" as text, and as the bytes a write carries.
LineOf(T, P, X) == <<45, 32, 91>> \o T \o <<93, 32, 40>> \o P \o <<41, 32>> \o X
LineBytes(a) ==
  Utf8Encode(LineOf(att[a].when, Pathname(att[a].page) \o Search(att[a].page), att[a].txt))

Clicks == 1..nAtt
Succeeded(a) == att[a].outcome = "Succeeded"
Failed(a) == att[a].outcome = "Failed"
\* The answer to the read of attempt a is known and is neither 200 nor 404.
ReadFailed(a) ==
  /\ att[a].getRes.kind # "none"
  /\ ~(att[a].getRes.kind = "http" /\ att[a].getRes.status \in {200, 404})

\* C1 (as claimed): an attempt that read content C with token T (status 200)
\* and ended in Succeeded issued exactly one write, with token T, whose content
\* is C, unaltered, followed by a newline and the one line "- [time] (page) text".
C1_AppendKeepsBase ==
  \A a \in Clicks :
    Succeeded(a) /\ att[a].getRes.kind = "http" /\ att[a].getRes.status = 200 =>
      /\ att[a].puts = 1
      /\ att[a].put.sha = att[a].getRes.sha
      /\ att[a].put.content = att[a].getRes.content \o <<NL>> \o LineBytes(a)

\* C2: an attempt whose read was answered 404 and that ended in Succeeded
\* issued exactly one write, without version token, whose content is the one
\* new line and nothing before it.
C2_NotFoundWritesOneLine ==
  \A a \in Clicks :
    Succeeded(a) /\ att[a].getRes.kind = "http" /\ att[a].getRes.status = 404 =>
      /\ att[a].puts = 1
      /\ att[a].put.sha = NoSha
      /\ att[a].put.content = LineBytes(a)

\* A first append to a log that did not exist, acknowledged and stored.
C2_Witness ==
  \E a \in Clicks :
    /\ Succeeded(a)
    /\ att[a].getRes.status = 404
    /\ att[a].puts = 1
    /\ remote.content = att[a].put.content

\* The text between the white space at the two ends of v.
Core(v) ==
  LET inner == {i \in 1..Len(v) : v[i] \notin WhiteSpace}
  IN  IF inner = {} THEN <<>>
      ELSE SubSeq(v, CHOOSE i \in inner : \A j \in inner : i <= j,
                     CHOOSE i \in inner : \A j \in inner : j <= i)

C4_ReadFailureEndsAttempt ==
  \A a \in Clicks :
    ReadFailed(a) =>
      /\ att[a].puts = 0
      /\ att[a].pc \in {"getAnswered", "done"}
      /\ att[a].pc = "done" => Failed(a)

\* Two attempts ended by a read failure: an undecodable body, a rejected fetch.
C4_Witness ==
  \E a, b \in Clicks :
    /\ att[a].getRes.kind = "badbody" /\ att[a].pc = "done" /\ Failed(a)
    /\ att[b].getRes.kind = "rejected" /\ att[b].pc = "done" /\ Failed(b)

\* Whether attempt a issued no request at all.
NoRequest(a) == att[a].gets = 0 /\ att[a].puts = 0

\* C5 (as claimed): with n the length of the text in the input at the click,
\* n in 1..200 leads to the credential prompt, and n = 0 or n > 200 fails
\* validation with no network request.
C5_ValidationByRawLength ==
  \A a \in Clicks :
    LET n == Len(att[a].raw)
    IN  /\ n \in 1..200 => att[a].prompted
        /\ n = 0 \/ n > 200 => ~att[a].prompted /\ NoRequest(a)

\* C5 (amended): the same with n the length of the text without the white
\* space at its two ends.
C5_ValidationByTrimmedLength ==
  \A a \in Clicks :
    LET n == Len(Core(att[a].raw))
    IN  /\ n \in 1..200 => att[a].prompted
        /\ n = 0 \/ n > 200 => ~att[a].prompted /\ NoRequest(a) /\ att[a].outcome = "Invalid"

\* 200 code units between white space were let through, 201 were not.
C5_Witness ==
  \E a, b \in Clicks :
    /\ Len(Core(att[a].raw)) = 200 /\ Len(att[a].raw) > 200 /\ att[a].prompted
    /\ Len(Core(att[b].raw)) = 201 /\ ~att[b].prompted /\ NoRequest(b)

\* The version token a write must carry after the read of the same attempt.
TokenOfRead(a) ==
  IF att[a].getRes.kind = "http" /\ att[a].getRes.status = 200 THEN att[a].getRes.sha ELSE NoSha

\* The store refused the write of attempt a as stale.
RefusedStale(a) == att[a].putRes.kind = "http" /\ att[a].putRes.status \in {409, 422}

\* C6: an attempt whose write the store refused as stale issued no other write
\* and, once its handler has resumed, has ended in Failed; and every write of
\* every attempt follows one read of that same attempt and carries the token
\* that read returned, whatever tokens earlier attempts held.
C6_StaleWriteFailsAndRetryReadsAgain ==
  \A a \in Clicks :
    /\ RefusedStale(a) =>
         /\ att[a].puts = 1
         /\ att[a].pc \in {"putAnswered", "done"}
         /\ att[a].pc = "done" => Failed(a)
    /\ att[a].puts > 0 =>
         /\ att[a].gets = 1
         /\ att[a].getRes.kind = "http"
         /\ att[a].put.sha = TokenOfRead(a)

\* A write refused as stale, then a later attempt with the same text that read
\* again, got the newer token, and succeeded with it.
C6_Witness ==
  \E a, b \in Clicks :
    /\ a < b
    /\ RefusedStale(a) /\ Failed(a) /\ att[a].put.sha # NoSha
    /\ att[b].txt = att[a].txt
    /\ att[b].getRes.sha > att[a].put.sha
    /\ att[b].put.sha = att[b].getRes.sha
    /\ Succeeded(b)

\* Number of places of content where line stands.
Occ(line, content) ==
  Cardinality({ i \in 1..(Len(content) - Len(line) + 1) :
                  SubSeq(content, i, i + Len(line) - 1) = line })

\* line1 stands in content, and line2 after it.
InOrder(line1, line2, content) ==
  \E i \in 1..Len(content), j \in 1..Len(content) :
    /\ i + Len(line1) <= j
    /\ SubSeq(content, i, i + Len(line1) - 1) = line1
    /\ SubSeq(content, j, j + Len(line2) - 1) = line2

\* C7 (as claimed): when attempt 2 was started after attempt 1 had ended, from
\* the same page, and both succeeded, the log holds the line of attempt 1 and
\* after it the line of attempt 2, and the second write carried the token that
\* the first write produced, as the read of attempt 2 returned it.
C7_SequentialKeepsBothLines ==
  \A a, b \in Clicks :
    a < b /\ Succeeded(a) /\ Succeeded(b) /\ att[b].alone /\ att[a].page = att[b].page
          /\ (\A c \in Clicks \ {a, b} : ~att[c].applied) =>
      /\ InOrder(LineBytes(a), LineBytes(b), remote.content)
      /\ att[b].put.sha = att[b].getRes.sha
      /\ att[b].getRes.sha = att[a].newSha

\* C8: a write is issued only after the read of the same attempt has been
\* answered (200 or 404) and the content has been composed from that answer; an
\* attempt still waiting for its read has composed nothing and written nothing.
C8_ReadThenComposeThenWrite ==
  \A a \in Clicks :
    /\ att[a].pc \in {"getSent", "getAnswered"} => att[a].puts = 0 /\ att[a].when = <<>>
    /\ att[a].puts > 0 =>
         /\ att[a].getRes.kind = "http" /\ att[a].getRes.status \in {200, 404}
         /\ att[a].when # <<>>
         /\ att[a].sha = TokenOfRead(a)
         /\ Occ(LineBytes(a), att[a].put.content) >= 1

\* One attempt has its write on its way while another still waits to resume
\* after its read.
C8_Witness ==
  \E a, b \in Clicks :
    /\ att[a].pc = "putSent" /\ att[a].getRes.status = 200
    /\ att[b].pc = "getAnswered" /\ att[b].getRes.status = 200

\* Both attempts were answered the same state of the log: neither read saw
\* the write of the other.
SameSnapshot(a, b) ==
  /\ att[a].puts = 1 /\ att[b].puts = 1
  /\ att[a].getRes = att[b].getRes

\* C9: when the reads of two attempts both came before either write, what each
\* composed holds its own line and not the line of the other; and if the store
\* took both writes, the log holds the content of the later write, without
\* the line of the earlier one.  (Two lines with the same time, page and text
\* are one and the same text: the log then holds it once.)
C9_OverlapLosesFirstLine ==
  \A a, b \in Clicks :
    a # b /\ SameSnapshot(a, b) =>
      LET same == IF LineBytes(a) = LineBytes(b) THEN 1 ELSE 0
      IN  /\ Occ(LineBytes(a), att[b].put.content) = same
          /\ Occ(LineBytes(b), att[b].put.content) = 1
          /\ att[a].applied /\ att[b].applied /\ att[a].newSha < att[b].newSha =>
               /\ remote.content = att[b].put.content
               /\ Occ(LineBytes(a), remote.content) = same

\* Two attempts read the same log, both writes were taken, and the line of
\* the first is gone.
C9_Witness ==
  \E a, b \in Clicks :
    /\ a # b /\ SameSnapshot(a, b)
    /\ Succeeded(a) /\ Succeeded(b) /\ att[a].newSha < att[b].newSha
    /\ LineBytes(a) # LineBytes(b)
    /\ Occ(LineBytes(a), att[a].put.content) = 1
    /\ Occ(LineBytes(a), remote.content) = 0

\* Lines of a text: none in the empty text, else one more than its newlines.
LineCount(c) == IF c = <<>> THEN 0 ELSE 1 + Cardinality({i \in 1..Len(c) : c[i] = NL})

\* C10 (as claimed): every write the store acknowledged made the stored text
\* longer than the text it replaced, and its line count one higher.
C10_AppendAddsOneLine ==
  \A a \in Clicks :
    att[a].applied /\ att[a].putRes.kind = "http" /\ att[a].putRes.status \in 200..299 =>
      /\ Len(att[a].put.content) > Len(att[a].replaced)
      /\ LineCount(att[a].put.content) = LineCount(att[a].replaced) + 1

\* C11: the step in which an attempt is cancelled at the credential prompt
\* ends its handler (back to idle) with the status 'Submission cancelled.',
\* has issued neither a read nor a write, leaves the log alone and leaves in
\* the textarea the text as it was typed; and a cancelled attempt does
\* nothing afterwards.
C11_CancelKeepsText ==
  [][\A a \in Attempts :
       /\ att[a].outcome # "Cancelled" /\ att'[a].outcome = "Cancelled" =>
            /\ att'[a].pc = "done"
            /\ att'[a].prompted
            /\ status'[att'[a].page] = <<"Submission cancelled.">>
            /\ att'[a].gets = 0 /\ att'[a].puts = 0
            /\ remote' = remote
            /\ input'[att'[a].page] = att'[a].raw
       /\ att[a].outcome = "Cancelled" => att'[a] = att[a]
    ]_vars

\* A cancelled attempt, its text (typed with white space around it) still in
\* the textarea, while an earlier attempt is still on its way.
C11_Witness ==
  \E a \in Clicks :
    /\ att[a].outcome = "Cancelled"
    /\ ~att[a].alone
    /\ att[a].raw # att[a].txt
    /\ input[att[a].page] = att[a].raw
    /\ status[att[a].page] = <<"Submission cancelled.">>

\* The answer to the write of attempt a has arrived and has a success status.
Acknowledged(a) ==
  /\ att[a].pc = "putAnswered"
  /\ att[a].putRes.kind = "http" /\ att[a].putRes.status \in 200..299

\* C12: the step an attempt takes once its write is acknowledged with a
\* success status ends it in Succeeded, empties the textarea and shows the
\* confirmation; any other step of an attempt leaves the textarea as it is
\* (its click reads what is typed there) and does not end it in Succeeded.
C12_AcknowledgedWriteClearsInput ==
  [][\A a \in Attempts :
       att'[a] # att[a] =>
         IF Acknowledged(a)
           THEN /\ att'[a].pc = "done" /\ att'[a].outcome = "Succeeded"
                /\ input'[att[a].page] = <<>>
                /\ status'[att[a].page] = <<"Thanks - feedback submitted.">>
           ELSE /\ att'[a].outcome # "Succeeded"
                /\ IF att[a].pc = "unused"
                     THEN input'[att'[a].page] = att'[a].raw
                     ELSE input' = input
    ]_vars

\* An attempt succeeded and the textarea is empty; another one, whose write
\* the store took but whose answer was lost, failed.
C12_Witness ==
  \E a, b \in Clicks :
    /\ att[a].outcome = "Succeeded" /\ att[a].raw # <<>>
    /\ input[att[a].page] = <<>>
    /\ status[att[a].page] = <<"Thanks - feedback submitted.">>
    /\ att[b].applied /\ att[b].putRes.kind = "rejected" /\ att[b].outcome = "Failed"

\* The answer to the write of attempt a has arrived and is a failure: a
\* status outside 200..299, or a rejected request.
WriteFailed(a) ==
  /\ att[a].putRes.kind # "none"
  /\ ~(att[a].putRes.kind = "http" /\ att[a].putRes.status \in 200..299)

\* C13: the step an attempt takes once its write has failed ends it in
\* Failed and leaves the textarea as it is; and when no other attempt was on
\* its way, the textarea still holds the text the attempt was clicked with.
C13_FailedWriteKeepsInput ==
  [][\A a \in Attempts :
       att[a].pc = "putAnswered" /\ WriteFailed(a) /\ att'[a] # att[a] =>
         /\ att'[a].pc = "done" /\ att'[a].outcome = "Failed"
         /\ input' = input
         /\ att[a].alone /\ a = nAtt => input'[att[a].page] = att[a].raw
    ]_vars

\* A write was refused (401) and the attempt failed; the next click, with the
\* same text in the textarea, succeeded.
C13_Witness ==
  \E a, b \in Clicks :
    /\ a < b
    /\ att[a].putRes.kind = "http" /\ att[a].putRes.status = 401
    /\ att[a].outcome = "Failed"
    /\ att[b].alone /\ att[b].raw = att[a].raw
    /\ att[b].outcome = "Succeeded"

\* The texts the handler can put in #feedback-status or give to
\* console.error: fixed texts, and the status code of a response.
ErrTexts ==
  { <<"Unable to read Feedback file: ", ToString(st)>> : st \in {401, 500} } \cup
  { <<"GitHub API error: ", ToString(st)>> : st \in {401, 409, 422} } \cup
  { <<"Unexpected end of JSON input">>, <<"Failed to fetch">> }
StatusTexts ==
  { <<>>, <<"Please enter feedback.">>, <<"Feedback too long.">>,
    <<"Submission cancelled.">>, <<"Submitting...">>, <<"Thanks - feedback submitted.">> }
  \cup { <<"Error: ">> \o m : m \in ErrTexts }

\* No credential (prompt() gave none, or no request was made).
NoToken == <<"", 0>>

\* C14: every attempt that got past the prompt holds a credential of its own,
\* entered at its own prompt; its read and its write carry that credential as
\* their authorization and no request of another attempt does; an attempt
\* that was not given a credential sends none.  The credential is in no part
\* of the body of the write (content: the log as read plus the new line;
\* commit message: the fixed text and the page; version token: the one read),
\* nor in the status text, nor in what console.error is given, nor in the log
\* the store keeps.
C14_CredentialStaysInItsAttempt ==
  /\ \A a \in Clicks :
       /\ att[a].gets > 0 <=> att[a].token # NoToken
       /\ att[a].token # NoToken =>
            /\ att[a].prompted
            /\ att[a].getAuth = att[a].token
            /\ att[a].puts > 0 => att[a].put.auth = att[a].token
            /\ \A b \in Clicks \ {a} :
                 /\ att[b].token # att[a].token
                 /\ att[b].getAuth # att[a].token
                 /\ att[b].put.auth # att[a].token
       /\ att[a].token = NoToken => att[a].getAuth = NoToken /\ att[a].put.auth = NoToken
       /\ att[a].puts > 0 =>
            /\ att[a].put.message = <<"Add feedback from page ", Pathname(att[a].page) \o Search(att[a].page)>>
            /\ att[a].put.sha = att[a].getRes.sha
            /\ Occ(LineBytes(a), att[a].put.content) >= 1
            /\ Len(att[a].put.content) <=
                 Len(Utf8Encode(att[a].getRes.content)) + 1 + Len(LineBytes(a))
       /\ att[a].logged \in ErrTexts \cup {<<>>}
  /\ \A p \in Pages : status[p] \in StatusTexts
  /\ remote.exists =>
       \/ remote.content \in InitialContents
       \/ \E a \in Clicks : att[a].applied /\ remote.content = att[a].put.content

\* Two attempts sent a read and a write each, every request under the
\* credential of its own attempt, and one of them failed and was logged.
C14_Witness ==
  \E a, b \in Clicks :
    /\ a # b
    /\ att[a].puts = 1 /\ att[b].puts = 1
    /\ att[a].put.auth = att[a].token /\ att[b].put.auth = att[b].token
    /\ att[a].token # att[b].token
    /\ att[a].logged # <<>>
    /\ att[b].outcome = "Succeeded"

\* C15: the step an attempt takes after a remote call of its own has failed
\* (a rejected fetch, a status that is neither awaited nor ok, a body that
\* does not decode) ends it in Failed, shows 'Error: ' followed by the message
\* of the failure, and gives that failure to console.error; an attempt ends
\* in Failed in no other way, and never ends otherwise than Invalid,
\* Cancelled, Succeeded or Failed.
C15_RemoteFailureIsCaught ==
  [][\A a \in Attempts :
       LET failing == \/ att[a].pc = "getAnswered" /\ ReadFailed(a)
                      \/ att[a].pc = "putAnswered" /\ WriteFailed(a)
       IN  /\ failing /\ att'[a] # att[a] =>
                /\ att'[a].pc = "done" /\ att'[a].outcome = "Failed"
                /\ Len(status'[att[a].page]) >= 2
                /\ status'[att[a].page][1] = "Error: "
                /\ att'[a].logged = Tail(status'[att[a].page])
                /\ att'[a].logged \in ErrTexts
           /\ att'[a].outcome = "Failed" /\ att[a].outcome # "Failed" => failing
           /\ att'[a].outcome \in {"none", "Invalid", "Cancelled", "Succeeded", "Failed"}
           /\ att'[a].pc = "done" => att'[a].outcome # "none"
    ]_vars

\* One attempt failed on a body that does not decode, another on a write the
\* store refused, and the status shows the code of the refusal.
C15_Witness ==
  \E a, b \in Clicks :
    /\ att[a].getRes.kind = "badbody" /\ att[a].outcome = "Failed"
    /\ att[b].putRes.kind = "http" /\ att[b].putRes.status = 401
    /\ att[b].outcome = "Failed"
    /\ status[att[b].page] = <<"Error: ", "GitHub API error: ", "401">>

\* C16: whatever its requests were answered, one click has sent at most one
\* read and at most one write, the write only after the read; an attempt that
\* has ended sends nothing more.
C16_NoAutomaticRetry ==
  \A a \in Clicks :
    /\ att[a].gets <= 1
    /\ att[a].puts <= 1
    /\ att[a].puts <= att[a].gets
    /\ att[a].outcome = "Failed" => att[a].pc = "done"
    /\ att[a].pc = "done" /\ att[a].outcome \in {"Invalid", "Cancelled"} =>
         att[a].gets = 0 /\ att[a].puts = 0

\* An attempt whose write was refused as stale has ended in Failed with one
\* read and one write sent, and the attempt that overtook it succeeded.
C16_Witness ==
  \E a, b \in Clicks :
    /\ att[a].putRes.kind = "http" /\ att[a].putRes.status = 409
    /\ att[a].outcome = "Failed" /\ att[a].gets = 1 /\ att[a].puts = 1
    /\ att[b].outcome = "Succeeded"

\* The children buildNav added to the container: those after the ones the
\* page had before (at most one in SpecNav, of class 'old').
OldCount == Cardinality({ k \in 1..Len(leftNav.children) : leftNav.children[k].className = "old" })
Added == SubSeq(leftNav.children, OldCount + 1, Len(leftNav.children))

\* C17: once buildNav has run on a page with the container, the container
\* holds, after what it held before, one group element per group of the
\* configuration in the order of the configuration; each holds one heading,
\* with the title of its group, and after it one link per entry of the group,
\* in the order of the entries, with the title and the target of the entry;
\* groups or entries that repeat are rendered as often as they stand.
C17_NavKeepsOrder ==
  navRun = "done" /\ leftNav.present =>
    /\ Len(Added) = Len(nav)
    /\ \A k \in 1..OldCount : leftNav.children[k] = OldChild
    /\ \A i \in 1..Len(nav) :
         LET g == Added[i]
         IN  /\ g.tag = "div" /\ g.className = "nav-group"
             /\ Len(g.children) = 1 + Len(nav[i].items)
             /\ g.children[1].tag = "h3"
             /\ g.children[1].textContent = nav[i].title
             /\ \A j \in 1..Len(nav[i].items) :
                  /\ g.children[j + 1].tag = "a"
                  /\ g.children[j + 1].textContent = nav[i].items[j].title
                  /\ g.children[j + 1].href = nav[i].items[j].href

\* Rendered: a group of two different entries, then a group with the same
\* title that holds one entry twice, in a container that had a child.
C17_Witness ==
  /\ navRun = "done" /\ leftNav.present /\ OldCount = 1
  /\ Len(nav) = 2
  /\ nav[1].title = nav[2].title
  /\ Len(nav[1].items) = 2 /\ nav[1].items[1] # nav[1].items[2]
  /\ Len(nav[2].items) = 2 /\ nav[2].items[1] = nav[2].items[2]
  /\ Len(leftNav.children) = 3
  /\ Len(leftNav.children[3].children) = 3

\* C18 (as claimed): on a page without the element 'left-nav', buildNav has
\* no effect: it ends normally, throws nothing and inserts nothing.
C18_MissingContainerIsNoOp ==
  ~leftNav.present /\ navRun # "pending" =>
    /\ navRun = "done"
    /\ leftNav = NoContainer

\* C19: an attempt that passed validation and was given a credential (its
\* read is on its way) ends in Succeeded or in Failed, provided its requests
\* are answered or rejected; and from the credential on it is never
\* cancelled nor invalid.
C19_StartedAttemptEnds ==
  /\ \A a \in Attempts :
       (att[a].pc = "getSent") ~> (att[a].pc = "done" /\ att[a].outcome \in {"Succeeded", "Failed"})
  /\ [](\A a \in Attempts :
          att[a].gets > 0 => att[a].outcome \in {"none", "Succeeded", "Failed"})

\* Both ends are met: one attempt succeeded, and one failed on a write whose
\* answer never came back.
C19_Witness ==
  \E a, b \in Clicks :
    /\ att[a].pc = "done" /\ att[a].outcome = "Succeeded"
    /\ att[b].pc = "done" /\ att[b].outcome = "Failed"
    /\ att[b].putRes.kind = "rejected"

\* C20: the write of an attempt carries a version token exactly when the read
\* of that attempt was answered 200, and then it is the token of that answer;
\* after a read answered 404 the write carries none.
C20_TokenIffReadFound ==
  \A a \in Clicks :
    att[a].puts > 0 =>
      LET found == att[a].getRes.kind = "http" /\ att[a].getRes.status = 200
      IN  /\ att[a].put.sha # NoSha <=> found
          /\ found => att[a].put.sha = att[a].getRes.sha
          /\ att[a].getRes.status = 404 => att[a].put.sha = NoSha

\* A write without token after a 404 created the log, and the next attempt
\* read it (200) and wrote with the token it was given.
C20_Witness ==
  \E a, b \in Clicks :
    /\ att[a].getRes.status = 404 /\ att[a].puts = 1 /\ att[a].put.sha = NoSha
    /\ att[a].applied
    /\ att[b].getRes.status = 200 /\ att[b].puts = 1
    /\ att[b].put.sha = att[a].newSha

\* c without its first character when that is a newline.
DropOneBlankLine(c) == IF Len(c) > 0 /\ c[1] = NL THEN Tail(c) ELSE c

\* C21 (as claimed): the content of a write composed from a base that was
\* read (status 200) is the base, a newline and the one new line, less at most
\* one leading blank line: nothing else of the base is changed, and a base
\* that begins with more white space keeps the rest of it.
C21_ComposeDropsOneBlankLine ==
  \A a \in Clicks :
    att[a].puts > 0 /\ att[a].getRes.status = 200 =>
      LET whole == att[a].getRes.content \o <<NL>> \o LineBytes(a)
      IN  att[a].put.content \in {whole, DropOneBlankLine(whole)}

\* The parts of the text in #feedback-status of page p.
Shown(p) == { status[p][i] : i \in 1..Len(status[p]) }

\* C22: the step that ends an attempt in Failed leaves in the status text,
\* after 'Error: ', the status code of the response when the read or the
\* write was answered with a failing status, and the message of the rejection
\* when the request was rejected.
C22_FailureIsSurfaced ==
  [][\A a \in Attempts :
       att[a].outcome # "Failed" /\ att'[a].outcome = "Failed" =>
         LET r == IF att[a].pc = "getAnswered" THEN att[a].getRes ELSE att[a].putRes
             shown == { status'[att[a].page][i] : i \in 1..Len(status'[att[a].page]) }
         IN  /\ "Error: " \in shown
             /\ r.kind = "http" => ToString(r.status) \in shown
             /\ r.kind = "rejected" => "Failed to fetch" \in shown
    ]_vars

\* On screen: the code of a write the store refused, after an attempt whose
\* read was rejected had shown the reason of the rejection.
C22_Witness ==
  \E a, b \in Clicks :
    /\ a < b
    /\ att[a].getRes.kind = "rejected" /\ att[a].outcome = "Failed"
    /\ att[a].logged = <<"Failed to fetch">>
    /\ att[b].putRes.kind = "http" /\ att[b].putRes.status = 401
    /\ att[b].outcome = "Failed"
    /\ "401" \in Shown(att[b].page)

\* The status text of page p is the one an attempt leaves when it ends in
\* Succeeded or in Failed.
ShowsEnd(p) ==
  \/ status[p] = <<"Thanks - feedback submitted.">>
  \/ Len(status[p]) >= 2 /\ status[p][1] = "Error: "

\* C23 (as claimed): while the status text is the one an attempt left when it
\* ended in Succeeded or in Failed, only a click on the submit button changes
\* it.
C23_EndStatusStaysUntilNextSubmit ==
  [][\A p \in Pages :
       ShowsEnd(p) /\ status'[p] # status[p] => nAtt' = nAtt + 1
    ]_vars

\* C24: at page load the feedback form is injected, with its handler,
\* whether buildNav ended normally or threw; and buildNav runs, and renders
\* every group when the container is there, whether or not the form is in the
\* page yet; neither changes what the other has built.
C24_LoadStepsAreIndependent ==
  /\ <>widget
  /\ <>(navRun # "pending")
  /\ [](navRun # "pending" /\ leftNav.present =>
          navRun = "done" /\ Len(Added) = Len(nav))
  /\ [][widget' # widget => leftNav' = leftNav /\ navRun' = navRun]_vars
  /\ [][navRun' # navRun => widget' = widget /\ input' = input /\ status' = status]_vars

\* The form is in a page whose navigation threw.
C24_Witness == widget /\ navRun = "threw" /\ ~leftNav.present /\ Len(nav) = 2

\* C25 (as claimed): with a store that refuses stale and token-less writes,
\* the line of every attempt that ended in Succeeded stands in the log, in
\* the bytes it was written with, in every later state.
C25_AcknowledgedLineStays ==
  strict => \A a \in Clicks : Succeeded(a) => Occ(LineBytes(a), remote.content) >= 1

\* C26 (as claimed): when the attempt clicked last has ended in Failed, the
\* textarea of its page (nothing was typed and nothing clicked since) holds the
\* text it was clicked with, whatever other attempts of the page did meanwhile.
C26_FailedAttemptKeepsItsText ==
  \A a \in Clicks :
    Failed(a) /\ a = nAtt => input[att[a].page] = att[a].raw

\* The places of content where a line "- [..]" begins, and the time it shows.
LineStarts(c) ==
  { i \in 1..Len(c) :
      /\ i = 1 \/ c[i - 1] = NL
      /\ i + 5 <= Len(c)
      /\ c[i] = 45 /\ c[i + 1] = SP /\ c[i + 2] = 91 /\ c[i + 5] = 93 }
Stamp(c, i) == (c[i + 3] - 48) * 10 + (c[i + 4] - 48)

C28_DecodeEncodeIsIdentity ==
  \A a \in Clicks :
    att[a].puts > 0 /\ ReadFound(att[a].getRes) =>
      LET stored == StripLeading(att[a].getRes.content)
      IN  /\ Len(att[a].put.content) >= Len(stored)
          /\ SubSeq(att[a].put.content, 1, Len(stored)) = stored

\* C29: the content of every write is not empty and does not begin with a
\* white-space character (as a byte, or as the two bytes of a no-break
\* space), whatever the read returned and whatever valid text was submitted.
C29_WriteBeginsWithText ==
  \A a \in Clicks :
    att[a].puts > 0 =>
      LET c == att[a].put.content
      IN  /\ Len(c) > 0
          /\ c[1] \notin WhiteSpace
          /\ ~(Len(c) >= 2 /\ c[1] = 194 /\ c[2] = 160)

\* A write composed on a log that held only white space, one on a log that
\* began with a newline and one on no log at all: each begins with a
\* character of the log or with the "-" of the new line.
C29_Witness ==
  \E a \in Clicks :
    /\ att[a].puts > 0
    /\ ReadFound(att[a].getRes) /\ att[a].getRes.content = <<SP, NL>>
    /\ att[a].raw = <<SP, 66, NL>>
    /\ att[a].put.content[1] = 45

\* C30: the step of a click that fails validation shows the validation
\* message and nothing else happens: no prompt, no request, the textarea
\* holds what the user typed, and the log, the clock and the other attempts
\* are as before.
C30_InvalidSubmitOnlySetsStatus ==
  [][\A a \in Attempts :
       att[a].pc = "unused" /\ att'[a].outcome = "Invalid" =>
         /\ status'[att'[a].page] \in { <<"Please enter feedback.">>, <<"Feedback too long.">> }
         /\ ~att'[a].prompted /\ NoRequest(a)' /\ att'[a].token = NoToken
         /\ input'[att'[a].page] = att'[a].raw
         /\ remote' = remote /\ now' = now
         /\ \A b \in Attempts \ {a} : att'[b] = att[b]
    ]_vars

\* A text of one space and a text of 201 characters were refused; the longer
\* one is still in the textarea and nothing was asked or sent.
C30_Witness ==
  \E a, b \in Clicks :
    /\ a < b
    /\ att[a].outcome = "Invalid" /\ att[a].raw = <<SP>>
    /\ att[b].outcome = "Invalid" /\ Len(att[b].raw) = MaxFeedbackLen + 1
    /\ input[att[b].page] = att[b].raw
    /\ status[att[b].page] = <<"Feedback too long.">>
    /\ ~att[b].prompted /\ NoRequest(b)
    /\ remote.exists /\ remote.sha = 1

====
